---- MODULE Spec2Model ----
(***************************************************************************)
(* A model of data/datasets.py: the two dataset constructors               *)
(* (Brennan2018Dataset, Gwilliams2022Dataset) and the functions they are   *)
(* built from.  Tensors are records [shape, data] with the data in         *)
(* row-major order, so that slicing, reshape, permute and expand are       *)
(* computed on the memory layout as torch and numpy compute them.          *)
(***************************************************************************)
EXTENDS Integers, Sequences, FiniteSets, TLC

VARIABLES
    mode,          \* which entry point of the module this behaviour runs
    pc,            \* position inside the running constructor or call
    err,           \* the exception that ended it, "none" while there is none
    X, Y,          \* Brennan2018Dataset: self.X, self.Y
    subject_idxs,  \* Brennan2018Dataset: self.subject_idxs
    argX, argY,    \* the arguments of the last shift_brain_signal / batchfy call
    seq_len,       \* Brennan2018Dataset: self.seq_len
    srate,         \* Brennan2018Dataset.__init__: srate
    disk,          \* data/Brennan2018: processed_X.pt, the embeddings file, raw/*.mat
    condLog,       \* per processed recording, the conditioning steps applied, in order
    inp, out,      \* the arguments and the result of a function called on its own
    real_durations,\* Gwilliams2022Dataset: self.real_durations
    gwCfg,         \* Gwilliams2022Dataset: the constructor's arguments and the raw data
    gwDisk,        \* data/Gwilliams2022: processed_X.npy, real_durations.npy, processed_Y.npy
    gwSelf,        \* Gwilliams2022Dataset: self.X, self.Y, self.subject_idxs
    gwLoop,        \* brain_preproc: the loop position, the local X, the recordings read
    gwRun          \* 1 in the first construction, 2 in the one after an interruption

vars == <<mode, pc, err, X, Y, subject_idxs, argX, argY, seq_len, srate, disk, condLog,
          inp, out, real_durations, gwCfg, gwDisk, gwSelf, gwLoop, gwRun>>

gwVars == <<gwCfg, gwDisk, gwSelf, gwLoop, gwRun>>

brennanVars == <<X, Y, subject_idxs, argX, argY, seq_len, srate, disk, condLog>>

(***************************************************************************)
(* Bounds of the model.                                                    *)
(***************************************************************************)
MaxSubj == 2
MaxChan == 2
MaxEmb == 2
MaxLen == 5
MaxSeqLen == 3
MaxDown == 2
MaxAnnot == 3
MaxDurLen == 2
MaxScaleChan == 2
MaxScaleTime == 2
MaxGwSubjects == 1

(***************************************************************************)
(* Arithmetic helpers.                                                     *)
(***************************************************************************)
Min(a, b) == IF a < b THEN a ELSE b
Max(a, b) == IF a > b THEN a ELSE b

RECURSIVE Prod(_)
Prod(s) == IF Len(s) = 0 THEN 1 ELSE Head(s) * Prod(Tail(s))

Front(s) == SubSeq(s, 1, Len(s) - 1)
Last(s) == s[Len(s)]

\* Python's normalisation of one bound of a slice over a sequence of length n.
PyBound(i, n) == IF i < 0 THEN Max(n + i, 0) ELSE Min(i, n)

(***************************************************************************)
(* Tensors.                                                                *)
(***************************************************************************)
Tensor(shape) == [shape |-> shape, data |-> [k \in 1..Prod(shape) |-> k - 1]]

\* the value of a tensor variable that holds nothing yet
NoTensor == [shape |-> <<0>>, data |-> <<>>]

\* The multi-index (0-based) of flat offset k (0-based) in a row-major layout.
RECURSIVE Unravel(_, _)
Unravel(k, shape) ==
    IF Len(shape) = 0 THEN <<>>
    ELSE LET inner == Prod(Tail(shape))
         IN  <<k \div inner>> \o Unravel(k % inner, Tail(shape))

RECURSIVE Ravel(_, _)
Ravel(idx, shape) ==
    IF Len(shape) = 0 THEN 0
    ELSE Head(idx) * Prod(Tail(shape)) + Ravel(Tail(idx), Tail(shape))

At(T, idx) == T.data[Ravel(idx, T.shape) + 1]

\* T[..., lo:hi] with Python's slice semantics on the last axis.
SliceLast(T, lo, hi) ==
    LET n == Last(T.shape)
        a == PyBound(lo, n)
        b == Max(PyBound(hi, n), a)
        m == b - a
        outer == Prod(Front(T.shape))
    IN  [shape |-> Front(T.shape) \o <<m>>,
         data |-> [k \in 1..(outer * m) |->
                      T.data[((k - 1) \div m) * n + a + ((k - 1) % m) + 1]]]

\* The shape reshape() infers when one entry is -1.
InferShape(numel, shape) ==
    LET known == Prod([i \in 1..Len(shape) |-> IF shape[i] = -1 THEN 1 ELSE shape[i]])
    IN  [i \in 1..Len(shape) |-> IF shape[i] = -1 THEN numel \div known ELSE shape[i]]

\* reshape of a contiguous tensor: the data stays, the shape changes.
Reshape(T, shape) ==
    [shape |-> InferShape(Len(T.data), shape), data |-> T.data]

\* permute followed by the copy the next reshape makes: axis i of the result is
\* axis perm[i] of T.
Permute(T, perm) ==
    LET ns == [i \in 1..Len(perm) |-> T.shape[perm[i]]]
        old(k) == LET ni == Unravel(k, ns)
                  IN  [j \in 1..Len(perm) |->
                          ni[CHOOSE i \in 1..Len(perm) : perm[i] = j]]
    IN  [shape |-> ns,
         data |-> [k \in 1..Prod(ns) |-> T.data[Ravel(old(k - 1), T.shape) + 1]]]

\* T.unsqueeze(0).expand(n, *T.shape)
ExpandFront(T, n) ==
    LET m == Len(T.data)
    IN  [shape |-> <<n>> \o T.shape,
         data |-> [k \in 1..(n * m) |-> T.data[((k - 1) % m) + 1]]]

(***************************************************************************)
(* shift_brain_signal                                                      *)
(***************************************************************************)
ShiftDefaultMs == 150

\* int(srate * (shift / 1000)), for the rates of SrateChoices, none of which
\* puts the product on an integer boundary
ShiftSamples(rate, shift_ms) == (rate * shift_ms) \div 1000

\* Y[:, :-shift]
DropTrailing(T, shift) == SliceLast(T, 0, 0 - shift)

\* X[:, :, shift:]
DropLeading(T, shift) == SliceLast(T, shift, Last(T.shape))

shift_brain_signal(Xa, Ya, rate, shift_ms) ==
    LET shift == ShiftSamples(rate, shift_ms)
    IN  [X |-> DropLeading(Xa, shift), Y |-> DropTrailing(Ya, shift)]

(***************************************************************************)
(* The Brain-Signal Conditioner's steps.  A recording is modelled by its   *)
(* channel count, time length and sampling rate, and by the list of the    *)
(* steps applied to it so far.                                             *)
(***************************************************************************)
Recording(chans, len, rate) ==
    [chans |-> chans, len |-> len, rate |-> rate, steps |-> <<>>]

\* Python's round(): to the nearest integer, a half to the even one; num, den > 0
RoundHalfEven(num, den) ==
    LET q == num \div den
        r == num % den
    IN  IF 2 * r < den THEN q
        ELSE IF 2 * r > den THEN q + 1
        ELSE IF q % 2 = 0 THEN q ELSE q + 1

\* mne.filter.filter_data: same shape, same rate
filter_data(rec) == [rec EXCEPT !.steps = Append(@, "filter")]

\* mne.filter.resample(x, down = dnum / dden): the time axis becomes
\* round(len / down) long
resample(rec, dnum, dden) ==
    [rec EXCEPT !.len = RoundHalfEven(rec.len * dden, dnum),
                !.rate = (rec.rate * dden) \div dnum,
                !.steps = Append(@, "resample")]

\* RobustScaler().fit(x).transform(x): same shape
robust_scale(rec) == [rec EXCEPT !.steps = Append(@, "scale")]

\* Brennan2018Dataset.brain_preproc, the body of the loop over the .mat files
BrennanCondition(rec, audio_embd_len) ==
    robust_scale(resample(filter_data(rec), rec.len, audio_embd_len))

MatfileLimit == 2
EegChannels == 60

\* Brennan2018Dataset.brain_preproc: the conditioned recordings, stacked
BrennanBrainPreproc(raw, audio_embd_len) ==
    LET n == Min(raw.files, MatfileLimit)
        recs == [i \in 1..n |->
                    BrennanCondition(
                        Recording(Min(raw.chans, EegChannels), raw.len, raw.fsample),
                        audio_embd_len)]
    IN  [X |-> Tensor(<<n, recs[n].chans, recs[n].len>>),
         srate |-> recs[n].rate,
         log |-> recs]

(***************************************************************************)
(* Brennan2018Dataset.batchfy                                              *)
(***************************************************************************)
BatchfyReshapeOnly(T) ==
    Reshape(T, <<T.shape[1], T.shape[3], T.shape[2], T.shape[4]>>)

\* X.permute(0, 2, 1, 3)
BatchfyPermute(T) == Permute(T, <<1, 3, 2, 4>>)

BrennanLengthsTruncated(Xa, Ya) ==
    LET m == Min(Last(Xa.shape), Last(Ya.shape))
    IN  [ok |-> TRUE, X |-> SliceLast(Xa, 0, m), Y |-> SliceLast(Ya, 0, m)]

\* assert X.shape[-1] == Y.shape[-1]
BrennanLengthsChecked(Xa, Ya) ==
    IF Last(Xa.shape) = Last(Ya.shape)
    THEN [ok |-> TRUE, X |-> Xa, Y |-> Ya]
    ELSE [ok |-> FALSE, X |-> Xa, Y |-> Ya]

BrennanBatchfyFn(Xa, Ya, W) ==
    LET chk == BrennanLengthsChecked(Xa, Ya)
    IN  IF ~chk.ok THEN [ok |-> FALSE, err |-> "AssertionError"]
        ELSE
        LET trim_len == Last(chk.X.shape) - (Last(chk.X.shape) % W)
            X1 == SliceLast(chk.X, 0, trim_len)
            Y1 == SliceLast(chk.Y, 0, trim_len)
            X2 == Reshape(X1, <<X1.shape[1], X1.shape[2], -1, W>>)
            Y2 == Reshape(Y1, <<Y1.shape[1], -1, W>>)
            Y3 == ExpandFront(Y2, X2.shape[1])
            X3 == BatchfyPermute(X2)
            Y4 == BatchfyPermute(Y3)
            idxs == [k \in 1..(X3.shape[1] * X3.shape[2]) |-> (k - 1) \div X3.shape[2]]
        IN  [ok |-> TRUE, err |-> "none",
             X |-> Reshape(X3, <<-1, X3.shape[3], X3.shape[4]>>),
             Y |-> Reshape(Y4, <<-1, Y4.shape[3], Y4.shape[4]>>),
             subject_idxs |-> idxs]

(***************************************************************************)
(* Gwilliams2022Dataset.to_second and trim_nosound_regions.  Times are     *)
(* counted in milliseconds: an onset is a pandas Timestamp, of which the   *)
(* model keeps the hour, the minute, the second and the microsecond (a     *)
(* multiple of 1000); a duration is a number of milliseconds.  A matrix    *)
(* cut out of meg_raw is the list of the column ranges <<lo, hi>> (lo      *)
(* included, hi excluded) it is concatenated from.                         *)
(***************************************************************************)
Timestamp(h, m, sec, us) == [hour |-> h, minute |-> m, second |-> sec, microsecond |-> us]

\* the time of day of a Timestamp, in milliseconds
TimeOfDay(o) == ((o.hour * 60 + o.minute) * 60 + o.second) * 1000 + (o.microsecond \div 1000)

\* onset.minute * 60 + onset.second + onset.microsecond * 1e-6, in milliseconds
to_second(o) == (o.minute * 60 + o.second) * 1000 + (o.microsecond \div 1000)

PrevSoundIdInit == -1

\* int(t * 1000), the column of meg_raw at time t, for t given in milliseconds
SampleIndex(t_ms) == t_ms

\* the loop of lines 354-359: the list starts_ends_t after annotations 1..t
\* (Python's index of annotation t is t - 1)
RECURSIVE StartsEnds(_, _)
StartsEnds(annot, t) ==
    IF t = 0 THEN <<>>
    ELSE LET prev == IF t = 1 THEN PrevSoundIdInit ELSE annot[t - 1].sound_id
         IN  IF annot[t].sound_id # prev
             THEN StartsEnds(annot, t - 1) \o <<(t - 1) - 1, t - 1>>
             ELSE StartsEnds(annot, t - 1)

\* line 361: starts_ends_t[1:] + [t]
PairsList(annot) ==
    Tail(StartsEnds(annot, Len(annot))) \o <<Len(annot) - 1>>

\* meg_raw[:, a:b] for a, b >= 0
SliceCols(n, a, b) == <<PyBound(a, n), Max(PyBound(b, n), PyBound(a, n))>>

RECURSIVE SumLens(_)
SumLens(ranges) ==
    IF Len(ranges) = 0 THEN 0
    ELSE (Head(ranges)[2] - Head(ranges)[1]) + SumLens(Tail(ranges))

\* annot is not empty (with no annotation the loop variable t is unbound)
trim_nosound_regions(meg_len, annot) ==
    LET flat == PairsList(annot)
    IN  IF Len(flat) % 2 # 0
        THEN [ok |-> FALSE, err |-> "ValueError", meg_trimmed |-> <<>>,
              real_durations |-> <<>>]
        ELSE
        LET n == Len(flat) \div 2
            start_t(i) == flat[2 * i - 1] + 1
            end_t(i) == flat[2 * i] + 1
            start(i) == to_second(annot[start_t(i)].onset)
            end(i) == to_second(annot[end_t(i)].onset) + annot[end_t(i)].duration
        IN  [ok |-> TRUE, err |-> "none",
             meg_trimmed |-> [i \in 1..n |->
                 SliceCols(meg_len, SampleIndex(start(i)), SampleIndex(end(i)))],
             real_durations |-> [i \in 1..n |-> end(i) - start(i)]]

(***************************************************************************)
(* Gwilliams2022Dataset.update_real_durations.  Durations are counted in   *)
(* milliseconds; the tolerances of numpy.allclose are rtol = 1e-5 and      *)
(* atol = 1e-8 second.                                                     *)
(***************************************************************************)
Abs(a) == IF a < 0 THEN 0 - a ELSE a

\* numpy.isclose(a, b): |a - b| <= atol + rtol * |b|, which for a and b in
\* milliseconds is 100000 * |a - b| <= 1 + |b|
IsClose(a, b) == Abs(a - b) <= (1 + Abs(b)) \div 100000

\* the shapes (m,) and (n,) broadcast
Broadcasts(m, n) == m = n \/ m = 1 \/ n = 1

\* numpy.allclose(a, b) of two lists that broadcast
AllClose(a, b) ==
    LET n == IF Len(a) = 1 THEN Len(b) ELSE IF Len(b) = 1 THEN Len(a) ELSE Len(a)
        el(s, i) == IF Len(s) = 1 THEN s[1] ELSE s[i]
    IN  \A i \in 1..n : IsClose(el(a, i), el(b, i))

\* line 381: not np.allclose(self.real_durations[task_str], real_durations)
DurationsCompared(stored, new) ==
    IF ~Broadcasts(Len(stored), Len(new))
    THEN [raised |-> TRUE, warned |-> FALSE]
    ELSE [raised |-> FALSE, warned |-> ~AllClose(stored, new)]

\* the map is a function from the tasks it holds to their duration lists
update_real_durations(map, new, task) ==
    LET cmp == IF task \in DOMAIN map
               THEN DurationsCompared(map[task], new)
               ELSE [raised |-> FALSE, warned |-> FALSE]
    IN  IF cmp.raised
        THEN [raised |-> TRUE, warned |-> FALSE, map |-> map]
        ELSE [raised |-> FALSE, warned |-> cmp.warned,
              map |-> [k \in (DOMAIN map) \cup {task} |->
                          IF k = task THEN new ELSE map[k]]]

(***************************************************************************)
(* sklearn's RobustScaler().fit(x).transform(x) on a matrix given as a     *)
(* function [1..rows -> [1..cols -> Int]].  sklearn reads the rows as      *)
(* samples and the columns as features.  Scaled values are fractions       *)
(* [num, den].                                                             *)
(***************************************************************************)
\* the k-th smallest (k from 0) of the values of sequence v
KthSmallest(v, k) ==
    CHOOSE x \in {v[i] : i \in 1..Len(v)} :
        /\ Cardinality({i \in 1..Len(v) : v[i] < x}) <= k
        /\ k < Cardinality({i \in 1..Len(v) : v[i] <= x})

\* 4 * numpy.nanpercentile(v, 25 * quarters), with linear interpolation
Percentile4(v, quarters) ==
    LET pos4 == quarters * (Len(v) - 1)
        lo == pos4 \div 4
        hi == Min(lo + 1, Len(v) - 1)
    IN  4 * KthSmallest(v, lo)
          + (pos4 % 4) * (KthSmallest(v, hi) - KthSmallest(v, lo))

\* 4 * numpy.nanmedian(v)
Median4(v) == 2 * (KthSmallest(v, (Len(v) - 1) \div 2) + KthSmallest(v, Len(v) \div 2))

\* the scaled value of x among the values v the scaler pools with it
ScaledAmong(x, v) ==
    LET iqr4 == Percentile4(v, 3) - Percentile4(v, 1)
    IN  [num |-> 4 * x - Median4(v), den |-> IF iqr4 = 0 THEN 4 ELSE iqr4]

\* the values RobustScaler pools with entry (r, c) of M: those of its feature,
\* which is column c, over all the samples, which are the rows
FeatureValues(M, r, c) == [i \in 1..Len(M) |-> M[i][c]]

RobustScalerFitTransform(M) ==
    [r \in 1..Len(M) |-> [c \in 1..Len(M[r]) |->
        ScaledAmong(M[r][c], FeatureValues(M, r, c))]]

(***************************************************************************)
(* Gwilliams2022Dataset: brain_preproc, audio_preproc, batchfy.  A         *)
(* recording is named by <<subject, session, task>> (the code's            *)
(* description string), subject counted from 1.  A conditioned recording   *)
(* is kept as the record the conditioning steps produce, an audio track as *)
(* its number of samples.                                                  *)
(***************************************************************************)
NumSessions == 2
NumTasks == 4

\* the recording at position i (from 0) of the three nested loops
GridKey(i) ==
    <<(i \div (NumSessions * NumTasks)) + 1, (i \div NumTasks) % NumSessions, i % NumTasks>>

\* key.split("_")[-1]
TaskOf(key) == key[3]

\* int(key.split("_")[0][-2:]) - 1
SubjectIdxOf(key) == key[1] - 1

GwConditionFilterFirst(rec, resample_rate) ==
    robust_scale(resample(filter_data(rec), 1000, resample_rate))

\* lines 282-293: resample to resample_rate, band-pass filter, scale
GwCondition(rec, resample_rate) ==
    robust_scale(filter_data(resample(rec, 1000, resample_rate)))

\* what one iteration of brain_preproc does with a recording it could read
\* (lines 273-299), from self.real_durations and the cache file's content
GwProcessRecording(key, meg_len, annot, durations, cache, resample_rate) ==
    LET trimmed == trim_nosound_regions(meg_len, annot)
        upd == update_real_durations(durations, trimmed.real_durations, TaskOf(key))
        rec == GwCondition(Recording(1, SumLens(trimmed.meg_trimmed), 1000),
                           resample_rate)
    IN  IF ~trimmed.ok
        THEN [ok |-> FALSE, err |-> trimmed.err, durations |-> durations, cache |-> cache]
        ELSE IF upd.raised
        THEN [ok |-> FALSE, err |-> "ValueError", durations |-> durations, cache |-> cache]
        ELSE [ok |-> TRUE, err |-> "none", durations |-> upd.map,
              cache |-> [k \in (DOMAIN cache) \cup {key} |->
                            IF k = key THEN rec ELSE cache[k]]]

\* torchaudio.functional.resample: ceil(new_freq * length / orig_freq) samples
AudioResampleLen(len, orig_freq, new_freq) ==
    (new_freq * len + orig_freq - 1) \div orig_freq

\* lines 317-335: one stimulus file cut to its real duration and upsampled
StimulusLen(wav, dur_ms, audio_upsample) ==
    LET cutoff == (wav.sample_rate * dur_ms) \div 1000
        kept == IF wav.len > cutoff THEN cutoff ELSE wav.len
    IN  AudioResampleLen(kept, wav.sample_rate, audio_upsample)

RECURSIVE TaskAudioLen(_, _, _, _)
TaskAudioLen(wavs, durs, f, audio_upsample) ==
    IF f = 0 THEN 0
    ELSE TaskAudioLen(wavs, durs, f - 1, audio_upsample)
           + StimulusLen(wavs[f], durs[f], audio_upsample)

\* audio_preproc: the length of each task's track, or the exception raised
\* by self.real_durations[f"task{task_idx}"][f]
GwAudioPreproc(wavs, durations, audio_upsample) ==
    IF \E t \in 0..(NumTasks - 1) : t \notin DOMAIN durations
    THEN [ok |-> FALSE, err |-> "KeyError", Y |-> <<>>]
    ELSE IF \E t \in 0..(NumTasks - 1) : Len(wavs[t]) > Len(durations[t])
    THEN [ok |-> FALSE, err |-> "IndexError", Y |-> <<>>]
    ELSE [ok |-> TRUE, err |-> "none",
          Y |-> [t \in 0..(NumTasks - 1) |->
                    TaskAudioLen(wavs[t], durations[t], Len(wavs[t]), audio_upsample)]]

\* the length x[:, :-trim_len] keeps of a time axis of length len
TrimmedLen(len, trim_len) == PyBound(0 - trim_len, len)

\* lines 228-230 and 234-236: the number of windows of length W cut from a
\* track of length len
GwWindows(len, W) == TrimmedLen(len, len % W) \div W

\* assert X.shape[0] == Y.shape[0]
GwCountsChecked(nx, ny) == nx = ny

\* batchfy: per recording, in the order of self.X's keys, the windows cut
RECURSIVE GwBatchfyFrom(_, _, _, _, _)
GwBatchfyFrom(keys, Xs, Ys, meg_len, audio_len) ==
    IF Len(keys) = 0 THEN [ok |-> TRUE, err |-> "none", windows |-> <<>>]
    ELSE LET key == Head(keys)
             nx == GwWindows(Xs[key].len, meg_len)
             ny == GwWindows(Ys[TaskOf(key)], audio_len)
             rest == GwBatchfyFrom(Tail(keys), Xs, Ys, meg_len, audio_len)
         IN  IF ~GwCountsChecked(nx, ny)
             THEN [ok |-> FALSE, err |-> "AssertionError", windows |-> <<>>]
             ELSE IF ~rest.ok THEN rest
             ELSE [ok |-> TRUE, err |-> "none",
                   windows |-> <<[key |-> key, nx |-> nx, ny |-> ny,
                                  subject_idx |-> SubjectIdxOf(key)]>> \o rest.windows]

\* the keys of the cache, in the order brain_preproc inserted them
RECURSIVE KeysInOrder(_, _)
KeysInOrder(map, n) ==
    IF n = 0 THEN <<>>
    ELSE KeysInOrder(map, n - 1)
           \o (IF GridKey(n - 1) \in DOMAIN map THEN <<GridKey(n - 1)>> ELSE <<>>)

(***************************************************************************)
(* Gwilliams2022Dataset.__init__                                           *)
(***************************************************************************)
GwParams == [resample_rate |-> 2, seq_len |-> 1, audio_upsample |-> 8,
             raw_len |-> 6000, wav_rate |-> 4]

Sec(n) == Timestamp(0, 0, n, 0)

\* the annotations of a recording of a task: two sounds, the first annotated
\* twice.  Session 1 repeats session 0 ("base"), or has its last sound 500 ms
\* longer ("longer"), or has a third sound ("extra")
TaskAnnot(key, variant) ==
    LET last == IF TaskOf(key) % 2 = 0 THEN 1500 ELSE 2000
        v == IF key[2] = 0 THEN "base" ELSE variant
        base == << [onset |-> Sec(0), duration |-> 1000, sound_id |-> 0],
                   [onset |-> Sec(1), duration |-> 1000, sound_id |-> 0],
                   [onset |-> Sec(3),
                    duration |-> IF v = "longer" THEN last + 500 ELSE last,
                    sound_id |-> 1] >>
    IN  IF v = "extra"
        THEN base \o << [onset |-> Sec(5), duration |-> 1000, sound_id |-> 0] >>
        ELSE base

Variants == {"base", "longer", "extra"}

\* the stimulus files of each task: two files, all wav_len samples long
WavLens == {4, 100}
WavFiles(wav_len) ==
    [t \in 0..(NumTasks - 1) |->
        << [len |-> wav_len, sample_rate |-> GwParams.wav_rate],
           [len |-> wav_len, sample_rate |-> GwParams.wav_rate] >>]

NoFile == [exists |-> FALSE, data |-> <<>>]
File(d) == [exists |-> TRUE, data |-> d]

GwFreshSelf == [X |-> <<>>, Y |-> <<>>, windows |-> <<>>]
GwFreshLoop == [idx |-> 0, bound |-> FALSE, X |-> <<>>, readable |-> {}, ended |-> FALSE]

idleGw ==
    /\ gwCfg = <<>> /\ gwDisk = <<>> /\ gwSelf = <<>> /\ gwLoop = <<>> /\ gwRun = 0

InitGwilliams ==
    /\ mode = "gwilliams" /\ pc = "init" /\ err = "none"
    /\ X = NoTensor /\ Y = NoTensor /\ subject_idxs = <<>>
    /\ argX = NoTensor /\ argY = NoTensor /\ seq_len = 1 /\ srate = 0
    /\ disk = <<>> /\ condLog = <<>>
    /\ inp = <<>> /\ out = <<>> /\ real_durations = <<>>
    /\ \E n \in 1..MaxGwSubjects, v \in Variants :
          gwCfg = [num_subjects |-> n, variant |-> v,
                   meg_len |-> GwParams.resample_rate * GwParams.seq_len,
                   audio_len |-> GwParams.audio_upsample * GwParams.seq_len]
    /\ gwDisk = [x |-> NoFile, dur |-> NoFile, y |-> NoFile]
    /\ gwSelf = GwFreshSelf
    /\ gwLoop = GwFreshLoop
    /\ gwRun = 1

GridSize == gwCfg.num_subjects * NumSessions * NumTasks

\* lines 194-201 up to the first iteration of brain_preproc's loop
GwMakeX ==
    /\ mode = "gwilliams" /\ pc = "init"
    /\ IF gwDisk.x.exists
       THEN IF gwDisk.dur.exists
            THEN /\ gwSelf' = [gwSelf EXCEPT !.X = gwDisk.x.data]
                 /\ real_durations' = gwDisk.dur.data
                 /\ pc' = "makeY"
                 /\ UNCHANGED <<err, gwDisk>>
            ELSE /\ gwSelf' = [gwSelf EXCEPT !.X = gwDisk.x.data]
                 /\ pc' = "aborted"
                 /\ err' = "FileNotFoundError"
                 /\ UNCHANGED <<real_durations, gwDisk>>
       ELSE /\ real_durations' = <<>>
            /\ gwDisk' = [gwDisk EXCEPT !.x = File(<<>>)]
            /\ pc' = "preproc"
            /\ UNCHANGED <<err, gwSelf>>
    /\ UNCHANGED <<mode, brennanVars, inp, out, gwCfg, gwLoop, gwRun>>

\* one iteration of the loops of brain_preproc (lines 257-299)
GwPreprocIter ==
    /\ mode = "gwilliams" /\ pc = "preproc"
    /\ gwLoop.idx < GridSize
    /\ \E readable \in BOOLEAN :
          LET key == GridKey(gwLoop.idx)
              res == GwProcessRecording(key, GwParams.raw_len,
                                        TaskAnnot(key, gwCfg.variant), real_durations,
                                        gwDisk.x.data, GwParams.resample_rate)
          IN  IF ~readable
              THEN /\ gwLoop' = [gwLoop EXCEPT !.idx = @ + 1]
                   /\ UNCHANGED <<pc, err, real_durations, gwDisk>>
              ELSE IF ~res.ok
              THEN /\ pc' = "aborted"
                   /\ err' = res.err
                   /\ gwLoop' = [gwLoop EXCEPT !.readable = @ \cup {key}, !.ended = TRUE]
                   /\ UNCHANGED <<real_durations, gwDisk>>
              ELSE /\ real_durations' = res.durations
                   /\ gwDisk' = [gwDisk EXCEPT !.x = File(res.cache)]
                   /\ gwLoop' = [gwLoop EXCEPT !.idx = @ + 1, !.bound = TRUE,
                                               !.X = res.cache,
                                               !.readable = @ \cup {key}]
                   /\ UNCHANGED <<pc, err>>
    /\ UNCHANGED <<mode, brennanVars, inp, out, gwCfg, gwSelf, gwRun>>

\* line 301 and lines 200-201: return X, then save self.real_durations
GwPreprocReturn ==
    /\ mode = "gwilliams" /\ pc = "preproc"
    /\ gwLoop.idx = GridSize
    /\ gwLoop' = [gwLoop EXCEPT !.ended = TRUE]
    /\ IF gwLoop.bound
       THEN /\ gwSelf' = [gwSelf EXCEPT !.X = gwLoop.X]
            /\ gwDisk' = [gwDisk EXCEPT !.dur = File(real_durations)]
            /\ pc' = "makeY"
            /\ UNCHANGED err
       ELSE /\ pc' = "aborted"
            /\ err' = "UnboundLocalError"
            /\ UNCHANGED <<gwSelf, gwDisk>>
    /\ UNCHANGED <<mode, brennanVars, inp, out, real_durations, gwCfg, gwRun>>

\* lines 203-207
GwMakeY ==
    /\ mode = "gwilliams" /\ pc = "makeY"
    /\ IF gwDisk.y.exists
       THEN /\ gwSelf' = [gwSelf EXCEPT !.Y = gwDisk.y.data]
            /\ pc' = "batchfy"
            /\ UNCHANGED <<err, gwDisk>>
       ELSE \E wav_len \in WavLens :
               LET res == GwAudioPreproc(WavFiles(wav_len), real_durations,
                                         GwParams.audio_upsample)
               IN  IF res.ok
                   THEN /\ gwSelf' = [gwSelf EXCEPT !.Y = res.Y]
                        /\ gwDisk' = [gwDisk EXCEPT !.y = File(res.Y)]
                        /\ pc' = "batchfy"
                        /\ UNCHANGED err
                   ELSE /\ pc' = "aborted"
                        /\ err' = res.err
                        /\ UNCHANGED <<gwSelf, gwDisk>>
    /\ UNCHANGED <<mode, brennanVars, inp, out, real_durations, gwCfg, gwLoop, gwRun>>

\* line 210
GwBatchfy ==
    /\ mode = "gwilliams" /\ pc = "batchfy"
    /\ LET res == GwBatchfyFrom(KeysInOrder(gwSelf.X, GridSize), gwSelf.X, gwSelf.Y,
                                gwCfg.meg_len, gwCfg.audio_len)
       IN  /\ gwSelf' = [gwSelf EXCEPT !.windows = res.windows]
           /\ pc' = IF res.ok THEN "done" ELSE "aborted"
           /\ err' = res.err
    /\ UNCHANGED <<mode, brennanVars, inp, out, real_durations, gwCfg, gwDisk, gwLoop,
                   gwRun>>

\* the process is stopped while brain_preproc runs
GwInterrupt ==
    /\ mode = "gwilliams" /\ pc = "preproc" /\ gwRun = 1
    /\ pc' = "killed"
    /\ UNCHANGED <<mode, err, brennanVars, inp, out, real_durations, gwVars>>

\* the constructor is called again with the same arguments: the files stay,
\* the object is new
GwRestart ==
    /\ mode = "gwilliams" /\ pc = "killed"
    /\ pc' = "init"
    /\ gwRun' = 2
    /\ gwSelf' = GwFreshSelf
    /\ gwLoop' = [GwFreshLoop EXCEPT !.readable = gwLoop.readable]
    /\ real_durations' = <<>>
    /\ UNCHANGED <<mode, err, brennanVars, inp, out, gwCfg, gwDisk>>

(***************************************************************************)
(* Brennan2018Dataset.__init__                                             *)
(***************************************************************************)
SrateChoices == {6, 7, 14, 27}

InitBrennan ==
    /\ mode = "brennan"
    /\ pc = "start"
    /\ err = "none"
    /\ X = NoTensor
    /\ Y = NoTensor
    /\ subject_idxs = <<>>
    /\ argX = NoTensor
    /\ argY = NoTensor
    /\ seq_len \in 1..MaxSeqLen
    /\ srate = 0
    /\ condLog = <<>>
    /\ inp = <<>> /\ out = <<>> /\ real_durations = <<>>
    /\ idleGw
    /\ \E S \in 1..MaxSubj, C \in 1..MaxChan, E \in 1..MaxEmb,
          Ly \in 1..MaxLen, r \in SrateChoices :
          \/ \E Lx \in 0..MaxLen :
                disk = [X_pt |-> [exists |-> TRUE, X |-> Tensor(<<S, C, Lx>>), srate |-> r],
                        Y_pt |-> Tensor(<<E, Ly>>),
                        raw |-> [files |-> 0, chans |-> 0, len |-> 0, fsample |-> 0]]
          \/ \E d \in 1..MaxDown :
                disk = [X_pt |-> [exists |-> FALSE, X |-> NoTensor, srate |-> 0],
                        Y_pt |-> Tensor(<<E, Ly>>),
                        raw |-> [files |-> S, chans |-> C, len |-> Ly * d,
                                 fsample |-> r * d]]

\* lines 54-69: load the embeddings, then the cached brain tensor or a fresh one
BrennanLoad ==
    /\ mode = "brennan" /\ pc = "start"
    /\ Y' = disk.Y_pt
    /\ IF disk.X_pt.exists
       THEN /\ X' = disk.X_pt.X
            /\ srate' = disk.X_pt.srate
            /\ UNCHANGED <<disk, condLog>>
       ELSE LET res == BrennanBrainPreproc(disk.raw, Last(disk.Y_pt.shape))
            IN  /\ X' = res.X
                /\ srate' = res.srate
                /\ condLog' = res.log
                /\ disk' = [disk EXCEPT !.X_pt = [exists |-> TRUE, X |-> res.X,
                                                  srate |-> res.srate]]
    /\ pc' = "loaded"
    /\ UNCHANGED <<mode, err, subject_idxs, argX, argY, seq_len, inp, out, real_durations,
                   gwVars>>

\* line 71
BrennanShift ==
    /\ mode = "brennan" /\ pc = "loaded"
    /\ LET res == shift_brain_signal(X, Y, srate, ShiftDefaultMs)
       IN  /\ X' = res.X
           /\ Y' = res.Y
    /\ argX' = X
    /\ argY' = Y
    /\ pc' = "shifted"
    /\ UNCHANGED <<mode, err, subject_idxs, seq_len, srate, disk, condLog, inp, out,
                   real_durations, gwVars>>

\* line 76
BrennanBatchfy ==
    /\ mode = "brennan" /\ pc = "shifted"
    /\ LET res == BrennanBatchfyFn(X, Y, seq_len)
       IN  IF res.ok
           THEN /\ X' = res.X
                /\ Y' = res.Y
                /\ subject_idxs' = res.subject_idxs
                /\ pc' = "done"
                /\ err' = "none"
           ELSE /\ pc' = "aborted"
                /\ err' = res.err
                /\ UNCHANGED <<X, Y, subject_idxs>>
    /\ argX' = X
    /\ argY' = Y
    /\ UNCHANGED <<mode, seq_len, srate, disk, condLog, inp, out, real_durations,
                   gwVars>>

(***************************************************************************)
(* Functions called on their own, on inputs drawn from bounded sets.       *)
(***************************************************************************)
idleBrennan ==
    /\ idleGw
    /\ X = NoTensor /\ Y = NoTensor /\ subject_idxs = <<>>
    /\ argX = NoTensor /\ argY = NoTensor /\ seq_len = 1 /\ srate = 0
    /\ disk = <<>> /\ condLog = <<>>

\* onsets before, at the end of and after the first hour of the clock
Stamps ==
    { Timestamp(0, 0, 0, 0), Timestamp(0, 0, 0, 2000),
      Timestamp(0, 59, 59, 999000), Timestamp(1, 0, 0, 1000) }
AnnotDurations == {1, 2}
SoundIds == {0, 1}
MegLens == {3, 6}

Annotations == [onset : Stamps, duration : AnnotDurations, sound_id : SoundIds]

\* the annotation streams of n entries, ordered by onset
Streams(n) ==
    { a \in [1..n -> Annotations] :
        \A i \in 1..(n - 1) : TimeOfDay(a[i].onset) <= TimeOfDay(a[i + 1].onset) }

InitTrim ==
    /\ mode = "trim" /\ pc = "call" /\ err = "none"
    /\ idleBrennan
    /\ out = <<>> /\ real_durations = <<>>
    /\ \E n \in 1..MaxAnnot, len \in MegLens :
          \E a \in Streams(n) : inp = [meg_len |-> len, annot |-> a]

TrimCall ==
    /\ mode = "trim" /\ pc = "call"
    /\ LET res == trim_nosound_regions(inp.meg_len, inp.annot)
       IN  /\ out' = res
           /\ pc' = IF res.ok THEN "returned" ELSE "raised"
           /\ err' = res.err
    /\ UNCHANGED <<mode, brennanVars, inp, real_durations, gwVars>>

\* 500 s, 500.003 s and 330 s, in milliseconds
DurValues == {500000, 500003, 330000}
DurTasks == {0, 1}

DurSeqs == UNION { [1..n -> DurValues] : n \in 0..MaxDurLen }

DurMaps == UNION { [T -> DurSeqs] : T \in SUBSET DurTasks }

InitDurations ==
    /\ mode = "durations" /\ pc = "call" /\ err = "none"
    /\ idleBrennan
    /\ inp = <<>> /\ out = <<>>
    /\ real_durations \in DurMaps

UpdateCall ==
    /\ mode = "durations" /\ pc = "call"
    /\ \E task \in DurTasks, new \in DurSeqs :
          LET res == update_real_durations(real_durations, new, task)
          IN  /\ inp' = [task |-> task, new |-> new, old |-> real_durations]
              /\ out' = [raised |-> res.raised, warned |-> res.warned]
              /\ real_durations' = res.map
              /\ pc' = IF res.raised THEN "raised" ELSE "returned"
              /\ err' = IF res.raised THEN "ValueError" ELSE "none"
    /\ UNCHANGED <<mode, brennanVars, gwVars>>

ScaleValues == {0, 3}

Matrices == UNION { [1..r -> [1..c -> ScaleValues]] :
                    r \in 2..MaxScaleChan, c \in 1..MaxScaleTime }

\* a recording M and the same recording with one entry of one channel changed
InitScale ==
    /\ mode = "scale" /\ pc = "call" /\ err = "none"
    /\ idleBrennan
    /\ out = <<>> /\ real_durations = <<>>
    /\ \E M \in Matrices :
          \E r \in 1..Len(M), v \in ScaleValues :
             \E c \in 1..Len(M[r]) :
                inp = [M |-> M, changed |-> r,
                       M2 |-> [M EXCEPT ![r][c] = v]]

ScaleCall ==
    /\ mode = "scale" /\ pc = "call"
    /\ out' = [A |-> RobustScalerFitTransform(inp.M),
               B |-> RobustScalerFitTransform(inp.M2)]
    /\ pc' = "returned"
    /\ UNCHANGED <<mode, err, brennanVars, inp, real_durations, gwVars>>

Init ==
    \/ InitBrennan
    \/ InitGwilliams
    \/ InitTrim
    \/ InitDurations
    \/ InitScale

Next ==
    \/ BrennanLoad
    \/ BrennanShift
    \/ BrennanBatchfy
    \/ GwMakeX
    \/ GwPreprocIter
    \/ GwPreprocReturn
    \/ GwMakeY
    \/ GwBatchfy
    \/ GwInterrupt
    \/ GwRestart
    \/ TrimCall
    \/ UpdateCall
    \/ ScaleCall

Spec == Init /\ [][Next]_vars

(***************************************************************************)
(* Claims about the Brennan2018 pipeline                                   *)
(***************************************************************************)

\* C2: shift_brain_signal on a brain and an audio tensor of equal time length
\* L, with S the delay in samples and 0 <= S <= L (S = 0 included): both
\* results have time length L - S, the brain tensor having lost its first S
\* samples and the audio tensor its last S samples.
C2_ShiftKeepsEqualLengths ==
    (mode = "brennan" /\ pc = "shifted" /\ Last(argX.shape) = Last(argY.shape)) =>
        LET L == Last(argX.shape)
            S == ShiftSamples(srate, ShiftDefaultMs)
        IN  (0 <= S /\ S <= L) =>
                /\ Last(X.shape) = L - S
                /\ Last(Y.shape) = L - S
                /\ \A s \in 0..(X.shape[1] - 1), c \in 0..(X.shape[2] - 1),
                      t \in 0..(L - S - 1) :
                      At(X, <<s, c, t>>) = At(argX, <<s, c, t + S>>)
                /\ \A e \in 0..(Y.shape[1] - 1), t \in 0..(Last(Y.shape) - 1) :
                      At(Y, <<e, t>>) = At(argY, <<e, t>>)

\* C3: Brennan2018Dataset.batchfy on a brain tensor (S, C, L) and an audio
\* tensor (E, L) with window length W, 1 <= W <= L, and n = floor(L / W):
\* brain windows, audio windows and subject indices each have S*n entries, and
\* the entry at flat index s*n + w is (brain[s, :, w*W:(w+1)*W],
\* audio[:, w*W:(w+1)*W], s).
C3_BatchfyLayout ==
    (mode = "brennan" /\ pc = "done" /\ seq_len <= Last(argX.shape)) =>
        LET S == argX.shape[1]
            C == argX.shape[2]
            E == argY.shape[1]
            W == seq_len
            n == Last(argX.shape) \div W
        IN  /\ X.shape = <<S * n, C, W>>
            /\ Y.shape = <<S * n, E, W>>
            /\ Len(subject_idxs) = S * n
            /\ \A s \in 0..(S - 1), w \in 0..(n - 1) :
                  /\ \A c \in 0..(C - 1), j \in 0..(W - 1) :
                        At(X, <<s * n + w, c, j>>) = At(argX, <<s, c, w * W + j>>)
                  /\ \A e \in 0..(E - 1), j \in 0..(W - 1) :
                        At(Y, <<s * n + w, e, j>>) = At(argY, <<e, w * W + j>>)
                  /\ subject_idxs[s * n + w + 1] = s

\* a run of batchfy with two subjects, two channels, two embedding rows and
\* at least two windows of at least two samples
C3_Witness ==
    /\ mode = "brennan" /\ pc = "done"
    /\ argX.shape[1] = 2 /\ argX.shape[2] = 2 /\ argY.shape[1] = 2
    /\ seq_len = 2 /\ Last(argX.shape) \div seq_len >= 2
    /\ Len(subject_idxs) = 4

(***************************************************************************)
(* Claims about the functions of Gwilliams2022Dataset                      *)
(***************************************************************************)
\* the annotations that open a maximal run of equal sound identifiers
RunStarts(annot) ==
    {i \in 1..Len(annot) : i = 1 \/ annot[i].sound_id # annot[i - 1].sound_id}

\* the first annotation of the k-th run
RunStart(annot, k) ==
    CHOOSE i \in RunStarts(annot) : Cardinality({j \in RunStarts(annot) : j < i}) = k - 1

\* the last annotation of the k-th run
RunEnd(annot, k) ==
    IF k = Cardinality(RunStarts(annot)) THEN Len(annot) ELSE RunStart(annot, k + 1) - 1

\* C4: for an annotation stream ordered by onset whose sound identifiers form
\* N >= 1 maximal runs, trim_nosound_regions returns N real durations, the
\* i-th being (onset of the last annotation of run i + its duration) - (onset
\* of the first annotation of run i), and a matrix that is the N per-segment
\* slices concatenated in segment order.
C4_TrimRunsAndDurations ==
    (mode = "trim" /\ pc # "call") =>
        LET a == inp.annot
            N == Cardinality(RunStarts(a))
        IN  /\ pc = "returned"
            /\ Len(out.real_durations) = N
            /\ \A i \in 1..N :
                  out.real_durations[i] =
                      (TimeOfDay(a[RunEnd(a, i)].onset) + a[RunEnd(a, i)].duration)
                        - TimeOfDay(a[RunStart(a, i)].onset)
            /\ Len(out.meg_trimmed) = N
            /\ \A i \in 1..N :
                  out.meg_trimmed[i] =
                      SliceCols(inp.meg_len, to_second(a[RunStart(a, i)].onset),
                                to_second(a[RunEnd(a, i)].onset) + a[RunEnd(a, i)].duration)

\* C5: for a task already in the real-duration map and a newly reported
\* duration list that differs from the stored one (in values or in number of
\* entries), update_real_durations raises nothing, logs a warning, and leaves
\* the new list stored for the task and every other task's entry unchanged.
C5_MismatchWarnsAndOverwrites ==
    (/\ mode = "durations" /\ pc # "call"
     /\ inp.task \in DOMAIN inp.old
     /\ inp.new # inp.old[inp.task]) =>
        /\ ~out.raised
        /\ out.warned
        /\ inp.task \in DOMAIN real_durations
        /\ real_durations[inp.task] = inp.new
        /\ \A k \in DOMAIN inp.old : k # inp.task =>
              (k \in DOMAIN real_durations /\ real_durations[k] = inp.old[k])

FracEq(a, b) == a.num * b.den = b.num * a.den

\* C10: robust scaling is per channel: the scaled values of channel c do not
\* change when the values of another channel of the recording are changed.
C10_ScalingPerChannel ==
    (mode = "scale" /\ pc = "returned") =>
        \A r \in 1..Len(inp.M) : r # inp.changed =>
            \A c \in 1..Len(inp.M[r]) : FracEq(out.A[r][c], out.B[r][c])

(***************************************************************************)
(* Claims about windowing, the conditioner and the Gwilliams2022 pipeline  *)
(***************************************************************************)
\* batchfy of Gwilliams2022Dataset was entered: both maps were in place
GwBatchfyRan ==
    mode = "gwilliams" /\ pc \in {"done", "aborted"} /\ gwSelf.Y # <<>>

\* C1: for every window length W >= 1 and time length L >= 0, windowing in
\* both corpora yields floor(L / W) windows of length W (the L mod W last
\* samples dropped), also when L mod W = 0 and when L < W.
C1_WindowCount ==
    /\ (mode = "brennan" /\ pc = "done") =>
          LET n == Last(argX.shape) \div seq_len
          IN  /\ X.shape = <<argX.shape[1] * n, argX.shape[2], seq_len>>
              /\ Y.shape = <<argX.shape[1] * n, argY.shape[1], seq_len>>
    /\ (mode = "gwilliams" /\ pc = "done") =>
          \A i \in 1..Len(gwSelf.windows) :
             LET w == gwSelf.windows[i]
             IN  /\ w.nx = gwSelf.X[w.key].len \div gwCfg.meg_len
                 /\ w.ny = gwSelf.Y[TaskOf(w.key)] \div gwCfg.audio_len

\* C6: whatever recordings are unreadable (all of them, or the last one,
\* included), brain_preproc skips exactly those, never aborts, and returns a
\* mapping whose keys are exactly the readable recordings, which is also the
\* content of the brain cache.
C6_SkipsUnreadable ==
    (mode = "gwilliams" /\ gwRun = 1 /\ gwCfg.variant = "base" /\ gwLoop.ended) =>
        /\ err \notin {"UnboundLocalError", "ValueError"}
        /\ DOMAIN gwSelf.X = gwLoop.readable
        /\ DOMAIN gwDisk.x.data = gwLoop.readable

\* a recording of self.X whose windows are not as many as its task's audio windows
GwCountsDiffer ==
    \E key \in DOMAIN gwSelf.X :
        GwWindows(gwSelf.X[key].len, gwCfg.meg_len)
            # GwWindows(gwSelf.Y[TaskOf(key)], gwCfg.audio_len)

C8_SecondRunResumes ==
    (mode = "gwilliams" /\ gwRun = 2 /\ pc \in {"done", "aborted"}) =>
        /\ pc = "done"
        /\ gwLoop.ended
        /\ gwLoop.readable \subseteq DOMAIN gwSelf.X
        /\ \A t \in 0..(NumTasks - 1) : t \in DOMAIN real_durations

\* the recordings conditioned so far, by corpus
ConditionedBrennan == {condLog[i] : i \in 1..Len(condLog)}
ConditionedGwilliams ==
    IF mode = "gwilliams" THEN {gwDisk.x.data[k] : k \in DOMAIN gwDisk.x.data} ELSE {}

\* C9 as stated: in both brain_preproc functions every recording is filtered
\* first, then resampled, then scaled.
C9_FilterResampleScale ==
    \A rec \in ConditionedBrennan \cup ConditionedGwilliams :
        rec.steps = <<"filter", "resample", "scale">>

\* C9 as amended: Brennan2018Dataset.brain_preproc filters, then resamples,
\* then scales; Gwilliams2022Dataset.brain_preproc resamples first, then
\* filters the resampled signal, then scales.  Scaling is the last step in both.
C9_StepOrderPerCorpus ==
    /\ \A rec \in ConditionedBrennan : rec.steps = <<"filter", "resample", "scale">>
    /\ \A rec \in ConditionedGwilliams : rec.steps = <<"resample", "filter", "scale">>

\* both brain_preproc functions have conditioned a recording: the witness
\* takes the Gwilliams2022 one, with the whole grid of one subject cached
C9_Witness ==
    /\ mode = "gwilliams"
    /\ Cardinality(DOMAIN gwDisk.x.data) = NumSessions * NumTasks

====
